---------------------------- MODULE Spec2Model ----------------------------
(***************************************************************************)
(* Model of thrml_server.py: the /predict handler (predict_trajectory) and *)
(* the model builder (create_bird_trajectory_model).                       *)
(*                                                                         *)
(* Numbers.  Heights and velocities are held in quarter pixels (Q = 4):    *)
(* every constant of the decoder (-6.5, 0.25, 8) is a multiple of 0.25, so *)
(* for request values that are multiples of 0.25 the float arithmetic of   *)
(* the handler is exact and is integer arithmetic in these units.  Biases  *)
(* and weights are held in tenths (0.5 -> 5, -0.3 -> -3, -1.0 -> -10).     *)
(* Pipe fields (x, topHeight, bottomY) are whole pixels.                   *)
(***************************************************************************)
EXTENDS Integers, Sequences, FiniteSets

VARIABLES
    pc,            \* position of the handler: idle, build, sample, decode,
                   \* aggregate, respond, error (off: no handler)
    bird_y,        \* data['birdY'], quarter pixels
    velocity,      \* data['velocity'], quarter pixels per frame
    pipes,         \* data['pipes'], sequence of pipe records
    model,         \* the IsingEBM built for this request (or NoModel)
    free_blocks,   \* the two sampling blocks of this request
    samples,       \* the spin samples returned by sample_states
    decoded,       \* per sample: positions, velocities and unclamped positions
    trajectories,  \* the list `trajectories` of the handler
    heatmap,       \* the list `heatmap` of the handler
    responses,     \* every response sent so far, with the request it answers
    stream,        \* which pseudo-random generator this behaviour runs with
    chain          \* chain construction for an arbitrary chain length

vars == <<pc, bird_y, velocity, pipes, model, free_blocks, samples, decoded,
          trajectories, heatmap, responses, stream, chain>>

----------------------------------------------------------------------------
(* Program constants *)

GRID_HEIGHT == 600
HEIGHT_BINS == 20
TIME_STEPS == 15

\* Fixed-point denominator: 0.25 (the gravity increment) is 1/Q.
Q == 4

\* Heights in quarter pixels.
H4 == GRID_HEIGHT * Q

\* current_v = -6.5
FlapV == -((13 * Q) \div 2)
\* current_v += 0.25
Gravity == Q \div 4
\* min(current_v, 8)
TerminalV == 8 * Q

\* Biases, in tenths.
BiasFalling == 5
BiasRising == -3
BiasDown == -10
BiasUp == 10
\* Edge weight 0.5, in tenths, and beta = 1.0.
EdgeWeight == 5
Beta == 1

\* pipe_x - 150, / 3, pipe_top + 50, pipe_bottom - 50
BirdX == 150
PipeSpeed == 3
DangerBand == 50

\* schedule = SamplingSchedule(n_warmup=50, n_samples=50, steps_per_sample=2)
schedule == [n_warmup |-> 50, n_samples |-> 50, steps_per_sample |-> 2]
n_samples == schedule.n_samples

\* trajectory[:10], trajectories[:20], traj[:5]
ReportHorizon == 10
ReportCount == 20
HeatWindow == 5

----------------------------------------------------------------------------
(* Bounds of the model *)

\* Pseudo-random generators 0..MaxStream a behaviour may run with.
MaxStream == 1
\* Longest pipe list of a request.
MaxPipes == 2
\* Requests served one after another in SpecRepeat.
MaxRequests == 2
\* Longest chain in SpecChain.
MaxChain == 40

----------------------------------------------------------------------------
(* Helpers *)

Min(a, b) == IF a < b THEN a ELSE b
Max(a, b) == IF a > b THEN a ELSE b

\* Python's int() of a quotient of integers: truncation toward zero.
TruncDiv(a, b) == IF a >= 0 THEN a \div b ELSE -((-a) \div b)

\* Python's s[:n].
Prefix(s, n) == SubSeq(s, 1, Min(n, Len(s)))

\* Python's s[start::step] for start >= 0, step >= 1.
Slice(s, start, step) ==
    LET n == IF Len(s) > start THEN (Len(s) - start + step - 1) \div step ELSE 0
    IN  [j \in 1..n |-> s[start + (j - 1) * step + 1]]

Range(s) == {s[i] : i \in DOMAIN s}

RECURSIVE SumSeq(_)
SumSeq(s) == IF s = <<>> THEN 0 ELSE s[1] + SumSeq(Tail(s))

----------------------------------------------------------------------------
(* create_bird_trajectory_model: nodes, edges, blocks *)

\* nodes = [SpinNode() for _ in range(TIME_STEPS)]; a node is named by its index.
Nodes(T) == [i \in 1..T |-> i - 1]

\* edges = [(nodes[i], nodes[i+1]) for i in range(TIME_STEPS - 1)]
Edges(T) == [i \in 1..(T - 1) |-> <<Nodes(T)[i], Nodes(T)[i + 1]>>]

\* Block(nodes[::2])
BlockA(T) == Slice(Nodes(T), 0, 2)

\* Block(nodes[1::2]) with the start index dropped to 2 (an off-by-one slip).
BlockBSkipsOne(T) == Slice(Nodes(T), 2, 2)

\* Block(nodes[1::2])
BlockB(T) == Slice(Nodes(T), 1, 2)

\* free_blocks = [Block(nodes[::2]), Block(nodes[1::2])]
FreeBlocks(T) == <<BlockA(T), BlockB(T)>>

----------------------------------------------------------------------------
(* create_bird_trajectory_model: biases *)

PipeKeys == {"x", "topHeight", "bottomY"}

\* pipe['x'], pipe['topHeight'], pipe['bottomY'] raise KeyError on a record
\* that lacks the key.
WellFormed(pipe) == PipeKeys \subseteq DOMAIN pipe

\* gravity_bias = 0.5 if current_velocity > 0 else -0.3
gravity_bias(current_velocity) ==
    IF current_velocity > 0 THEN BiasFalling ELSE BiasRising

\* frames_until_pipe = int((pipe_x - 150) / 3)
frames_until_pipe(pipe_x) == TruncDiv(pipe_x - BirdX, PipeSpeed)

\* The danger tests with the second one taken first (branches swapped).
PipeBiasBottomFirst(biases, pipe, current_y) ==
    LET k == frames_until_pipe(pipe.x)
    IN  IF 0 <= k /\ k < Len(biases)
        THEN IF current_y > (pipe.bottomY - DangerBand) * Q
             THEN [biases EXCEPT ![k + 1] = BiasUp]
             ELSE IF current_y < (pipe.topHeight + DangerBand) * Q
                  THEN [biases EXCEPT ![k + 1] = BiasDown]
                  ELSE biases
        ELSE biases

\* The override applied only where no pipe has written yet (first write wins).
PipeBiasFirstWins(biases, pipe, current_y) ==
    LET k == frames_until_pipe(pipe.x)
    IN  IF 0 <= k /\ k < Len(biases)
           /\ biases[k + 1] \in {BiasFalling, BiasRising}
        THEN IF current_y < (pipe.topHeight + DangerBand) * Q
             THEN [biases EXCEPT ![k + 1] = BiasDown]
             ELSE IF current_y > (pipe.bottomY - DangerBand) * Q
                  THEN [biases EXCEPT ![k + 1] = BiasUp]
                  ELSE biases
        ELSE biases

\* One iteration of `for pipe in pipes` (lines 43-57).
PipeBias(biases, pipe, current_y) ==
    LET k == frames_until_pipe(pipe.x)
    IN  IF 0 <= k /\ k < Len(biases)
        THEN IF current_y < (pipe.topHeight + DangerBand) * Q
             THEN [biases EXCEPT ![k + 1] = BiasDown]
             ELSE IF current_y > (pipe.bottomY - DangerBand) * Q
                  THEN [biases EXCEPT ![k + 1] = BiasUp]
                  ELSE biases
        ELSE biases

\* The loop `for pipe in pipes`, in iteration order.
RECURSIVE ApplyPipes(_, _, _)
ApplyPipes(biases, ps, current_y) ==
    IF ps = <<>> THEN biases
    ELSE ApplyPipes(PipeBias(biases, Head(ps), current_y), Tail(ps), current_y)

\* biases = jnp.ones(TIME_STEPS) * gravity_bias, then the pipe loop.
Biases(current_y, current_velocity, ps) ==
    ApplyPipes([t \in 1..TIME_STEPS |-> gravity_bias(current_velocity)],
               ps, current_y)

\* model = IsingEBM(nodes, edges, biases, weights, beta)
IsingEBM(current_y, current_velocity, ps) ==
    [nodes   |-> Nodes(TIME_STEPS),
     edges   |-> Edges(TIME_STEPS),
     biases  |-> Biases(current_y, current_velocity, ps),
     weights |-> [e \in 1..Len(Edges(TIME_STEPS)) |-> EdgeWeight],
     beta    |-> Beta]

NoModel == [nodes |-> <<>>, edges |-> <<>>, biases |-> <<>>,
            weights |-> <<>>, beta |-> 0]

----------------------------------------------------------------------------
(* create_bird_trajectory_model: sampling (lines 73-78)                     *)
(*                                                                          *)
(* hinton_init and sample_states are calls into the thrml library.  What    *)
(* the handler relies on is that they return n_samples assignments, each    *)
(* giving every node a spin in {-1, +1}, as a function of the keys and of   *)
(* the program (the model's biases).  The generator behind the keys is not  *)
(* known, so a behaviour fixes one generator of a small family, indexed by  *)
(* `stream`, at its start.                                                  *)

\* A request-dependent key (a key taken from a per-process counter).
KeyPerRequest == 42 + Len(responses)

\* key = jax.random.key(42)
Key == 42

\* k_init, k_samp = jax.random.split(key, 2)
Split(key) == <<(2 * key + 1) % 251, (2 * key + 2) % 251>>

\* The draw of generator g for key k, sample i, node t: a number in 0..250.
Uniform(g, k, i, t) ==
    ((k + 3 * g + 1) * (17 * i + 5 * t + 3) + 7 * i * i + 3 * t * t * (g + 1)
     + (((k + g) * (i + t)) % 13)) % 251

\* A biased coin: the more positive the node's bias, the likelier +1.
Spin(u, bias) == IF u < 125 + 5 * bias THEN 1 ELSE -1

\* init_state = hinton_init(k_init, model, free_blocks, ())
hinton_init(g, k_init, m) ==
    [t \in 1..Len(m.nodes) |-> Spin(Uniform(g, k_init, 0, t), m.biases[t])]

\* samples = sample_states(k_samp, program, schedule, init_state, [], [Block(nodes)])
sample_states(g, k_samp, m, init_state) ==
    LET k == k_samp + SumSeq(init_state) + Len(init_state)
    IN  [i \in 1..n_samples |->
            [t \in 1..Len(m.nodes) |-> Spin(Uniform(g, k, i, t), m.biases[t])]]

----------------------------------------------------------------------------
(* predict_trajectory: decoding (lines 114-137) *)

\* The flap added to the velocity instead of replacing it.
PhysicsFlapAdds(spin, current_y, current_v) ==
    LET v1 == IF spin > 0 THEN current_v + FlapV ELSE current_v
        v2 == Min(v1 + Gravity, TerminalV)
        raw == current_y + v2
    IN  [y |-> Max(0, Min(H4, raw)), v |-> v2, raw |-> raw]

\* One iteration of `for t in range(TIME_STEPS)` (lines 121-133): the new
\* position and velocity, and the position before the clamp.
Physics(spin, current_y, current_v) ==
    LET v1 == IF spin > 0 THEN FlapV ELSE current_v
        v2 == Min(v1 + Gravity, TerminalV)
        raw == current_y + v2
    IN  [y |-> Max(0, Min(H4, raw)), v |-> v2, raw |-> raw]

\* The loop over t for one sample: trajectory (with the start), and for each
\* step the velocity after it and the position before the clamp.
RECURSIVE DecodeFrom(_, _, _, _, _)
DecodeFrom(sample, t, current_y, current_v, acc) ==
    IF t > TIME_STEPS THEN acc
    ELSE LET r == Physics(sample[t], current_y, current_v)
         IN  DecodeFrom(sample, t + 1, r.y, r.v,
                        [ys   |-> Append(acc.ys, r.y),
                         vs   |-> Append(acc.vs, r.v),
                         raws |-> Append(acc.raws, r.raw)])

DecodeSample(sample, start_y, v0) ==
    DecodeFrom(sample, 1, start_y, v0,
               [ys |-> <<start_y>>, vs |-> <<>>, raws |-> <<>>])

\* trajectory[:11]
ReportEleven(trajectory) == Prefix(trajectory, ReportHorizon + 1)

\* trajectories.append(trajectory[:10])
Report(trajectory) == Prefix(trajectory, ReportHorizon)

----------------------------------------------------------------------------
(* predict_trajectory: heatmap (lines 140-147) *)

\* The bin index without the clamp of line 144.
BinIndexNoClamp(y) == TruncDiv(y * HEIGHT_BINS, H4)

\* bin_idx = int((y / GRID_HEIGHT) * HEIGHT_BINS); max(0, min(HEIGHT_BINS - 1, .))
\* For multiples of 0.25 the float quotient truncates like the exact one.
BinIndex(y) == Max(0, Min(HEIGHT_BINS - 1, TruncDiv(y * HEIGHT_BINS, H4)))

\* heatmap[bin_idx] += 1 (bins are numbered from 0; the sequence from 1)
Bump(counts, b) == [counts EXCEPT ![b + 1] = @ + 1]

\* for y in traj[:5]
RECURSIVE AddPositions(_, _)
AddPositions(counts, ys) ==
    IF ys = <<>> THEN counts
    ELSE AddPositions(Bump(counts, BinIndex(Head(ys))), Tail(ys))

\* for traj in trajectories[:20]: the bins are only ever added to, so the
\* count of a bin is the sum over the trajectories of what each adds to it.
Counts(trajs) ==
    LET zeros == [b \in 1..HEIGHT_BINS |-> 0]
        each == [n \in DOMAIN Prefix(trajs, ReportCount) |->
                    AddPositions(zeros, Prefix(trajs[n], HeatWindow))]
    IN  [b \in 1..HEIGHT_BINS |-> SumSeq([n \in DOMAIN each |-> each[n][b]])]

\* heatmap / heatmap.sum() if heatmap.sum() > 0 else heatmap: each entry is
\* the fraction num/den.
Normalize(counts) ==
    IF SumSeq(counts) > 0
    THEN [b \in DOMAIN counts |-> [num |-> counts[b], den |-> SumSeq(counts)]]
    ELSE [b \in DOMAIN counts |-> [num |-> counts[b], den |-> 1]]

----------------------------------------------------------------------------
(* Requests *)

\* birdY: -4, 0, 299.75, 300, 600 and 640 pixels, in quarter pixels.
Heights == {-16, 0, 1199, 1200, 2400, 2560}

\* velocity: -2, 2 and 10 pixels per frame, in quarter pixels.
Velocities == {-8, 8, 40}

Pipe(x, top, bottom) == [x |-> x, topHeight |-> top, bottomY |-> bottom]

\* Two pipes that reach the bird at step 0 (x = 148 by truncation toward
\* zero), one at step 14 (44 / 3 truncated), one past the chain (step 15),
\* and a record with no bottomY.
PipeSet ==
    {Pipe(150, 300, 320), Pipe(148, -100, 100),
     Pipe(194, 200, 400), Pipe(195, 200, 400),
     [x |-> 150, topHeight |-> 200]}

PipeLists == UNION {[1..n -> PipeSet] : n \in 0..MaxPipes}

\* The requests of SpecRepeat.
RepeatHeights == {0, 1200}
RepeatVelocities == {8}
RepeatPipeLists ==
    {<<>>, <<Pipe(150, 300, 320)>>, <<[x |-> 150, topHeight |-> 200]>>}

NoChain == [T |-> 0, stage |-> "off", nodes |-> <<>>, edges |-> <<>>,
            blocks |-> <<>>]

----------------------------------------------------------------------------
(* The handler *)

Init ==
    /\ pc = "idle"
    /\ bird_y = 0
    /\ velocity = 0
    /\ pipes = <<>>
    /\ model = NoModel
    /\ free_blocks = <<>>
    /\ samples = <<>>
    /\ decoded = <<>>
    /\ trajectories = <<>>
    /\ heatmap = <<>>
    /\ responses = <<>>
    /\ stream \in 0..MaxStream
    /\ chain = NoChain

\* data = request.json; bird_y, velocity, pipes = data[...] (lines 102-105).
\* Everything the handler computes is local to the call.
Receive(limit, HS, VS, PS) ==
    /\ pc = "idle"
    /\ Len(responses) < limit
    /\ \E h \in HS, v \in VS, ps \in PS :
          /\ bird_y' = h
          /\ velocity' = v
          /\ pipes' = ps
    /\ model' = NoModel
    /\ free_blocks' = <<>>
    /\ samples' = <<>>
    /\ decoded' = <<>>
    /\ trajectories' = <<>>
    /\ heatmap' = <<>>
    /\ pc' = "build"
    /\ UNCHANGED <<responses, stream, chain>>

\* create_bird_trajectory_model up to the sampling program (lines 33-70).
BuildModel ==
    /\ pc = "build"
    /\ \A i \in DOMAIN pipes : WellFormed(pipes[i])
    /\ model' = IsingEBM(bird_y, velocity, pipes)
    /\ free_blocks' = FreeBlocks(TIME_STEPS)
    /\ pc' = "sample"
    /\ UNCHANGED <<bird_y, velocity, pipes, samples, decoded, trajectories,
                   heatmap, responses, stream, chain>>

\* pipe['x'], pipe['topHeight'] or pipe['bottomY'] raises KeyError in the
\* pipe loop; the handler's except clause takes over (line 156).
BuildModelKeyError ==
    /\ pc = "build"
    /\ \E i \in DOMAIN pipes : ~WellFormed(pipes[i])
    /\ pc' = "error"
    /\ UNCHANGED <<bird_y, velocity, pipes, model, free_blocks, samples,
                   decoded, trajectories, heatmap, responses, stream, chain>>

\* Lines 73-80: the keys, the initial state, the samples.
SampleStates ==
    /\ pc = "sample"
    /\ LET keys == Split(Key)
           init_state == hinton_init(stream, keys[1], model)
       IN  samples' = sample_states(stream, keys[2], model, init_state)
    /\ pc' = "decode"
    /\ UNCHANGED <<bird_y, velocity, pipes, model, free_blocks, decoded,
                   trajectories, heatmap, responses, stream, chain>>

\* for sample in samples: ... trajectories.append(trajectory[:10])
Decode ==
    /\ pc = "decode"
    /\ decoded' = [i \in DOMAIN samples |->
                      DecodeSample(samples[i], bird_y, velocity)]
    /\ trajectories' = [i \in DOMAIN samples |-> Report(decoded'[i].ys)]
    /\ pc' = "aggregate"
    /\ UNCHANGED <<bird_y, velocity, pipes, model, free_blocks, samples,
                   heatmap, responses, stream, chain>>

\* Lines 140-147.
Aggregate ==
    /\ pc = "aggregate"
    /\ heatmap' = Normalize(Counts(trajectories))
    /\ pc' = "respond"
    /\ UNCHANGED <<bird_y, velocity, pipes, model, free_blocks, samples,
                   decoded, trajectories, responses, stream, chain>>

\* return jsonify({'status': 'success', 'trajectories': trajectories[:20], ...})
\* The handler's locals end with the call.
Respond ==
    /\ pc = "respond"
    /\ responses' = Append(responses,
          [bird_y |-> bird_y, velocity |-> velocity, pipes |-> pipes,
           status |-> "success", samples |-> samples,
           trajectories |-> Prefix(trajectories, ReportCount),
           heatmap |-> heatmap])
    /\ model' = NoModel
    /\ free_blocks' = <<>>
    /\ samples' = <<>>
    /\ decoded' = <<>>
    /\ trajectories' = <<>>
    /\ heatmap' = <<>>
    /\ pc' = "idle"
    /\ UNCHANGED <<bird_y, velocity, pipes, stream, chain>>

\* except Exception: return jsonify({'status': 'error', ...}), 500
RespondError ==
    /\ pc = "error"
    /\ responses' = Append(responses,
          [bird_y |-> bird_y, velocity |-> velocity, pipes |-> pipes,
           status |-> "error", samples |-> samples,
           trajectories |-> <<>>, heatmap |-> <<>>])
    /\ model' = NoModel
    /\ free_blocks' = <<>>
    /\ samples' = <<>>
    /\ decoded' = <<>>
    /\ trajectories' = <<>>
    /\ heatmap' = <<>>
    /\ pc' = "idle"
    /\ UNCHANGED <<bird_y, velocity, pipes, stream, chain>>

Handle ==
    \/ BuildModel
    \/ BuildModelKeyError
    \/ SampleStates
    \/ Decode
    \/ Aggregate
    \/ Respond
    \/ RespondError

\* One request.
Next == Receive(1, Heights, Velocities, PipeLists) \/ Handle

Spec == Init /\ [][Next]_vars

\* Requests served one after another by the same process.
NextRepeat ==
    Receive(MaxRequests, RepeatHeights, RepeatVelocities, RepeatPipeLists)
    \/ Handle

SpecRepeat == Init /\ [][NextRepeat]_vars

----------------------------------------------------------------------------
(* The chain and its blocks, for every chain length 1..MaxChain *)

InitChain ==
    /\ pc = "off"
    /\ bird_y = 0
    /\ velocity = 0
    /\ pipes = <<>>
    /\ model = NoModel
    /\ free_blocks = <<>>
    /\ samples = <<>>
    /\ decoded = <<>>
    /\ trajectories = <<>>
    /\ heatmap = <<>>
    /\ responses = <<>>
    /\ stream = 0
    /\ \E T \in 1..MaxChain :
          chain = [NoChain EXCEPT !.T = T, !.stage = "start"]

ChainNodes ==
    /\ chain.stage = "start"
    /\ chain' = [chain EXCEPT !.nodes = Nodes(chain.T), !.stage = "nodes"]
    /\ UNCHANGED <<pc, bird_y, velocity, pipes, model, free_blocks, samples,
                   decoded, trajectories, heatmap, responses, stream>>

ChainEdges ==
    /\ chain.stage = "nodes"
    /\ chain' = [chain EXCEPT !.edges = Edges(chain.T), !.stage = "edges"]
    /\ UNCHANGED <<pc, bird_y, velocity, pipes, model, free_blocks, samples,
                   decoded, trajectories, heatmap, responses, stream>>

ChainBlocks ==
    /\ chain.stage = "edges"
    /\ chain' = [chain EXCEPT !.blocks = FreeBlocks(chain.T),
                              !.stage = "blocks"]
    /\ UNCHANGED <<pc, bird_y, velocity, pipes, model, free_blocks, samples,
                   decoded, trajectories, heatmap, responses, stream>>

NextChain == ChainNodes \/ ChainEdges \/ ChainBlocks

SpecChain == InitChain /\ [][NextChain]_vars

----------------------------------------------------------------------------
(* Claims *)

Succeeded(r) == r.status = "success"
InRange(y) == 0 <= y /\ y <= 600 * 4
ValidRequest(r) ==
    /\ InRange(r.bird_y)
    /\ \A i \in DOMAIN r.pipes : {"x", "topHeight", "bottomY"} \subseteq DOMAIN r.pipes[i]

\* C1: in every success response, every position of every returned
\* trajectory, the first (the starting height) included, lies in [0, 600],
\* whatever the request's height, velocity and obstacles were.
C1_PositionsInRange ==
    \A n \in DOMAIN responses :
        Succeeded(responses[n]) =>
            \A i \in DOMAIN responses[n].trajectories :
                \A j \in DOMAIN responses[n].trajectories[i] :
                    InRange(responses[n].trajectories[i][j])

\* C2: a request whose height is outside [0, 600] is answered with an error
\* result, and nothing is sampled for it: no samples exist at any point of
\* its handling, and the response carries no trajectories and no heatmap.
C2_OutOfRangeRejected ==
    /\ (pc # "idle" /\ ~InRange(bird_y)) => samples = <<>>
    /\ \A n \in DOMAIN responses :
          ~InRange(responses[n].bird_y) =>
              /\ responses[n].status = "error"
              /\ responses[n].samples = <<>>
              /\ responses[n].trajectories = <<>>
              /\ responses[n].heatmap = <<>>

Aggregated(r) ==
    {<<i, j>> \in (DOMAIN r.trajectories) \X (1..5) : j <= Len(r.trajectories[i])}

HeatTotal(r) == SumSeq([b \in DOMAIN r.heatmap |-> r.heatmap[b].num])

\* C4: the returned heatmap has non-negative entries that sum to 1 (every
\* entry is count/total with total the sum of the counts), or are all 0
\* when the total is 0; each aggregated position has incremented exactly
\* one of the bins 0..19 (the counts sum to the number of aggregated
\* positions), and a height of 600 or more is counted in bin 19.
C4_Heatmap ==
    \A n \in DOMAIN responses :
        Succeeded(responses[n]) =>
            LET r == responses[n]
            IN  /\ DOMAIN r.heatmap = 1..20
                /\ \A b \in 1..20 : r.heatmap[b].num >= 0
                /\ IF HeatTotal(r) > 0
                   THEN \A b \in 1..20 : r.heatmap[b].den = HeatTotal(r)
                   ELSE \A b \in 1..20 : r.heatmap[b].num = 0
                /\ HeatTotal(r) = Cardinality(Aggregated(r))
                /\ r.heatmap[20].num >=
                      Cardinality({p \in Aggregated(r) :
                                      r.trajectories[p[1]][p[2]] >= 600 * 4})

\* C4 witness: a success response in which some aggregated position is
\* exactly 600 and another is below it, with 100 positions counted.
C4_Witness ==
    \E n \in DOMAIN responses :
        /\ Succeeded(responses[n])
        /\ HeatTotal(responses[n]) = 100
        /\ \E p \in Aggregated(responses[n]) :
              responses[n].trajectories[p[1]][p[2]] = 600 * 4
        /\ \E p \in Aggregated(responses[n]) :
              responses[n].trajectories[p[1]][p[2]] < 600 * 4
        /\ responses[n].heatmap[20].num > 0
        /\ responses[n].heatmap[20].den = 100

\* The step index the claims give an obstacle: int((x - 150) / 3).
StepOf(pipe) ==
    IF pipe.x >= 150 THEN (pipe.x - 150) \div 3 ELSE -((150 - pipe.x) \div 3)

Built == model # NoModel
BaseBias == IF velocity > 0 THEN 5 ELSE -3
TooHigh(pipe) == bird_y < (pipe.topHeight + 50) * 4
TooLow(pipe) == ~TooHigh(pipe) /\ bird_y > (pipe.bottomY - 50) * 4

\* C5: with a single obstacle whose step k = int((x - 150) / 3) is in
\* [0, 15) and a height below gapTop + 50, the built model's bias at step k
\* is -1.0 and the bias at every other step is the base bias.
C5_SingleObstacleTooHigh ==
    (Built /\ Len(pipes) = 1 /\ StepOf(pipes[1]) \in 0..14 /\ TooHigh(pipes[1]))
    => /\ Len(model.biases) = 15
       /\ model.biases[StepOf(pipes[1]) + 1] = -10
       /\ \A t \in 1..15 :
             t # StepOf(pipes[1]) + 1 => model.biases[t] = BaseBias

\* C5 witness: such a model has been built for an obstacle at the last step
\* of the chain (k = 14), falling.
C5_Witness ==
    /\ Built /\ Len(pipes) = 1 /\ StepOf(pipes[1]) = 14 /\ TooHigh(pipes[1])
    /\ velocity > 0
    /\ model.biases[15] = -10 /\ model.biases[1] = 5

\* C6: for every chain length T >= 1 the two blocks are disjoint, hold no
\* node twice, together hold exactly the T nodes, every edge joins the
\* nodes t and t+1, and no edge has both ends in one block.
C6_BlocksPartition ==
    chain.stage = "blocks" =>
        LET A == Range(chain.blocks[1])
            B == Range(chain.blocks[2])
        IN  /\ A \cap B = {}
            /\ A \cup B = 0..(chain.T - 1)
            /\ Range(chain.nodes) = 0..(chain.T - 1)
            /\ Cardinality(A) = Len(chain.blocks[1])
            /\ Cardinality(B) = Len(chain.blocks[2])
            /\ Len(chain.edges) = chain.T - 1
            /\ \A e \in DOMAIN chain.edges :
                  /\ chain.edges[e][2] = chain.edges[e][1] + 1
                  /\ ~({chain.edges[e][1], chain.edges[e][2]} \subseteq A)
                  /\ ~({chain.edges[e][1], chain.edges[e][2]} \subseteq B)

\* C6 witness: the blocks of the chain of the program's length 15 are built.
C6_Witness ==
    /\ chain.stage = "blocks" /\ chain.T = 15
    /\ Len(chain.blocks[1]) = 8 /\ Len(chain.blocks[2]) = 7
    /\ Len(chain.edges) = 14

SameRequest(r1, r2) ==
    /\ r1.bird_y = r2.bird_y
    /\ r1.velocity = r2.velocity
    /\ r1.pipes = r2.pipes

AtStep(k) == {i \in DOMAIN pipes : StepOf(pipes[i]) = k}
Last(S) == CHOOSE i \in S : \A j \in S : j <= i

\* The bias an obstacle alone determines at its step.
BiasOf(pipe) ==
    IF TooHigh(pipe) THEN -10 ELSE IF TooLow(pipe) THEN 10 ELSE BaseBias

\* C8 as stated: when several obstacles map to the same step k in [0, 15),
\* the bias at k is the one the last of them in the list determines.
C8_LastObstacleWins ==
    Built =>
        \A k \in 0..14 :
            Cardinality(AtStep(k)) >= 2 =>
                model.biases[k + 1] = BiasOf(pipes[Last(AtStep(k))])

\* The obstacles at step k that write the bias: the height is in one of
\* their danger bands.
Writers(k) == {i \in AtStep(k) : TooHigh(pipes[i]) \/ TooLow(pipes[i])}

\* C8 amended: when several obstacles map to the same step k in [0, 15), the
\* bias at k is the one set by the last of them, in list order, that has the
\* height in one of its danger bands; an obstacle with the height in neither
\* band leaves the bias as it was, and with no such obstacle the bias at k is
\* the base bias.
C8_LastWriterWins ==
    Built =>
        \A k \in 0..14 :
            Cardinality(AtStep(k)) >= 2 =>
                model.biases[k + 1] =
                    IF Writers(k) = {} THEN BaseBias
                    ELSE BiasOf(pipes[Last(Writers(k))])

\* C8 witness: two obstacles at step 0, the first sets the bias and the
\* last, with the height in neither of its bands, leaves it.
C8_Witness ==
    /\ Built /\ Len(pipes) = 2
    /\ AtStep(0) = {1, 2}
    /\ Writers(0) = {1}
    /\ model.biases[1] = -10
    /\ BiasOf(pipes[2]) = BaseBias

\* C10: in the decoder, the velocity after every step is at most 8; a step
\* whose decision is +1 moves the position by -6.5 + 0.25 before the clamp,
\* whatever the velocity was; a step whose decision is -1 moves it by
\* min(previous velocity + 0.25, 8) before the clamp.
C10_DecoderStep ==
    \A i \in DOMAIN decoded :
        \A t \in 1..15 :
            LET d == decoded[i]
                v_before == IF t = 1 THEN velocity ELSE d.vs[t - 1]
                moved == d.raws[t] - d.ys[t]
            IN  /\ d.vs[t] <= 32
                /\ samples[i][t] = 1 => moved = -26 + 1
                /\ samples[i][t] = -1 =>
                      moved = (IF v_before + 1 < 32 THEN v_before + 1 ELSE 32)
                /\ trajectories[i] = SubSeq(d.ys, 1, 10)

\* C10 witness: some sample has been decoded in which a -1 step hit the
\* terminal velocity and a +1 step followed a step of another velocity.
C10_Witness ==
    \E i \in DOMAIN decoded :
        /\ \E t \in 1..15 :
              /\ samples[i][t] = -1
              /\ (IF t = 1 THEN velocity ELSE decoded[i].vs[t - 1]) + 1 > 32
              /\ decoded[i].vs[t] = 32
        /\ \E t \in 2..15 :
              /\ samples[i][t] = 1
              /\ decoded[i].vs[t - 1] # -26
              /\ decoded[i].vs[t] = -25

============================================================================
